---- MODULE Spec2Model ----
(***************************************************************************)
(* LiveEvents (packages/liveui/liveevents.js): event delegation over a     *)
(* range of sibling DOM nodes.                                             *)
(*                                                                         *)
(* A string is a sequence of units.  A unit is the blank " ", the comma    *)
(* ",", or a word (a maximal run of other characters, kept atomic).        *)
(* A dispatch runs to completion inside one action: JavaScript is          *)
(* single-threaded and every listener of liveevents.js is synchronous.     *)
(***************************************************************************)
EXTENDS Integers, Sequences, FiniteSets, TLC

VARIABLES parent, ieHack, listeners, ieWired, evt, log, hist, pin, pout

vars == <<parent, ieHack, listeners, ieWired, evt, log, hist, pin, pout>>

\* parent    : node -> its parentNode (NoNode for null)
\* ieHack    : wireIEChangeSubmitHack is set (IE <= 8), fixed when the file is loaded
\* listeners : node -> the jQuery registrations on it, in registration order
\* ieWired   : node -> source type -> attachEvent registrations of changeSubmitHandlerIE
\* evt, log  : the event the browser raised last and what its dispatch did
\* hist      : the API calls made so far, in order (history, kept for the properties)
\* pin, pout : a spec string and its parse, for the parser run on its own

(***************************************************************************)
(* Bounds                                                                  *)
(***************************************************************************)
\* API calls (attachEvents, resetEvents, prepareForEvents, foreign bind) per behaviour
MaxOps == 3
\* units in a spec string handed to the parser on its own
MaxSpecLen == 4

(***************************************************************************)
(* The DOM: nodes 0..7, node 0 is the document.  Siblings are ordered by   *)
(* their number.                                                           *)
(***************************************************************************)
Doc == 0
NoNode == -1
Nodes == 0..7
Elems == Nodes \ {Doc}

\* DIV > (UL.save > LI.save > INPUT[text]), (FORM > INPUT.save[checkbox]), DIV
Tree == (0 :> NoNode) @@ (1 :> 0) @@ (2 :> 1) @@ (3 :> 2) @@ (4 :> 3) @@ (5 :> 1) @@ (6 :> 5) @@ (7 :> 1)

nodeName == (0 :> "#document") @@ (1 :> "DIV") @@ (2 :> "UL") @@ (3 :> "LI") @@ (4 :> "INPUT") @@ (5 :> "FORM") @@ (6 :> "INPUT") @@ (7 :> "DIV")
inputType == (0 :> "") @@ (1 :> "") @@ (2 :> "") @@ (3 :> "") @@ (4 :> "text") @@ (5 :> "") @@ (6 :> "checkbox") @@ (7 :> "")
classes == (0 :> {}) @@ (1 :> {}) @@ (2 :> {".save"}) @@ (3 :> {".save"}) @@ (4 :> {}) @@ (5 :> {}) @@ (6 :> {".save"}) @@ (7 :> {})

\* n.parentNode chain above n (n excluded)
RECURSIVE AncestorsIn(_, _)
AncestorsIn(p, n) == IF p[n] = NoNode THEN {} ELSE {p[n]} \cup AncestorsIn(p, p[n])

Ancestors(n) == AncestorsIn(parent, n)

\* variant that reads the tree as it was when the page was loaded
DescendantsAtLoadTime(c) == {n \in Nodes : c \in AncestorsIn(Tree, n)}

Descendants(c) == {n \in Nodes : c \in Ancestors(n)}

\* n.nextSibling
nextSibling(n) ==
  LET later == {m \in Nodes : parent[m] = parent[n] /\ parent[n] # NoNode /\ m > n}
  IN IF later = {} THEN NoNode ELSE CHOOSE m \in later : \A k \in later : m <= k

\* n.firstChild is non-null
hasChild(n) == \E m \in Nodes : parent[m] = n

(***************************************************************************)
(* String.prototype.split with the two separators the parser uses          *)
(***************************************************************************)
\* length of the run of blanks of s that starts at position i
RECURSIVE wsRun(_, _)
wsRun(s, i) == IF i <= Len(s) /\ s[i] = " " THEN 1 + wsRun(s, i + 1) ELSE 0

\* length of the match of /,\s+/ at position i of s (0: no match)
matchCommaWs(s, i) ==
  IF i <= Len(s) /\ s[i] = "," /\ wsRun(s, i + 1) > 0 THEN 1 + wsRun(s, i + 1) ELSE 0

\* length of the match of /\s+/ at position i of s (0: no match)
matchWs(s, i) == wsRun(s, i)

matchAt(re, s, i) == IF re = "commaWs" THEN matchCommaWs(s, i) ELSE matchWs(s, i)

\* p: start of the piece being collected, q: scan position
RECURSIVE splitFrom(_, _, _, _, _)
splitFrom(re, s, p, q, acc) ==
  IF q > Len(s) THEN Append(acc, SubSeq(s, p, Len(s)))
  ELSE LET m == matchAt(re, s, q)
       IN IF m > 0 THEN splitFrom(re, s, q + m, q + m, Append(acc, SubSeq(s, p, q - 1)))
                   ELSE splitFrom(re, s, p, q + 1, acc)

split(s, re) == splitFrom(re, s, 1, 1, <<>>)

\* Array.prototype.join(' ')
RECURSIVE join(_)
join(parts) ==
  IF Len(parts) = 0 THEN <<>>
  ELSE IF Len(parts) = 1 THEN parts[1]
  ELSE parts[1] \o <<" ">> \o join(Tail(parts))

(***************************************************************************)
(* Event map parsing (the two _.each loops of _attachEvents)               *)
(***************************************************************************)
\* variant of the switch without the tests of wireIEChangeSubmitHack
rewrittenEventTypeIgnoringHack(eventType, hack) ==
  IF eventType = <<"focus">> THEN <<"focusin">>
  ELSE IF eventType = <<"blur">> THEN <<"focusout">>
  ELSE IF eventType = <<"change">> THEN <<"cellchange">>
  ELSE IF eventType = <<"submit">> THEN <<"datasetcomplete">>
  ELSE eventType

\* the switch on eventType; hack: wireIEChangeSubmitHack is set
rewrittenEventTypeOf(eventType, hack) ==
  IF eventType = <<"focus">> THEN <<"focusin">>
  ELSE IF eventType = <<"blur">> THEN <<"focusout">>
  ELSE IF eventType = <<"change">> /\ hack THEN <<"cellchange">>
  ELSE IF eventType = <<"submit">> /\ hack THEN <<"datasetcomplete">>
  ELSE eventType

bubblesOf(eventType) == ~(eventType = <<"focus">> \/ eventType = <<"blur">>)

\* one clause: the bindings it yields (none when it is skipped)
parseClause(clause, callback, hack) ==
  LET parts == split(clause, "ws")
  IN IF Len(parts) = 0 THEN <<>>
     ELSE LET eventType == Head(parts)
              selector == join(Tail(parts))
          IN << [eventType |-> eventType,
                 selector |-> selector,
                 rewrittenEventType |-> rewrittenEventTypeOf(eventType, hack),
                 bubbles |-> bubblesOf(eventType),
                 callback |-> callback] >>

RECURSIVE parseClauses(_, _, _)
parseClauses(clauses, callback, hack) ==
  IF Len(clauses) = 0 THEN <<>>
  ELSE parseClause(Head(clauses), callback, hack) \o parseClauses(Tail(clauses), callback, hack)

\* one `spec: callback` entry of the map
parseSpec(spec, callback, hack) == parseClauses(split(spec, "commaWs"), callback, hack)

\* the whole map, a sequence of [spec, callback] entries in key order
RECURSIVE parseEvents(_, _)
parseEvents(events, hack) ==
  IF Len(events) = 0 THEN <<>>
  ELSE parseSpec(Head(events).spec, Head(events).callback, hack) \o parseEvents(Tail(events), hack)

(***************************************************************************)
(* $(contextNode).find(selector): the descendants of the context that      *)
(* match, every element the selector refers to lying below the context.    *)
(* A selector is a chain of simple selectors joined by the descendant      *)
(* combinator; a simple selector is "*", a class or a tag name.            *)
(***************************************************************************)
tagOf(tok) ==
  CASE tok = "ul" -> "UL" [] tok = "li" -> "LI" [] tok = "input" -> "INPUT"
    [] tok = "form" -> "FORM" [] tok = "div" -> "DIV" [] OTHER -> "?"

simpleMatch(n, piece) ==
  /\ Len(piece) = 1
  /\ \/ piece[1] = "*"
     \/ piece[1] \in classes[n]
     \/ nodeName[n] = tagOf(piece[1])

RECURSIVE chainMatch(_, _, _, _)
chainMatch(n, toks, k, ctx) ==
  /\ simpleMatch(n, toks[k])
  /\ \/ k = 1
     \/ \E a \in Ancestors(n) \cap Descendants(ctx) : chainMatch(a, toks, k - 1, ctx)

find(ctx, selector) ==
  LET toks == SelectSeq(split(selector, "ws"), LAMBDA piece : piece # <<>>)
  IN IF ctx = NoNode \/ Len(toks) = 0 THEN {}
     ELSE {n \in Descendants(ctx) : chainMatch(n, toks, Len(toks), ctx)}

(***************************************************************************)
(* The listener installed by attach (the function handed to $.event.add)   *)
(***************************************************************************)
\* variant of the loop without its first `break`: the outermost match wins
RECURSIVE selectorMatchOutermost(_, _, _, _)
selectorMatchOutermost(curNode, contextNode, results, bubbles) ==
  IF curNode = contextNode \/ curNode = NoNode THEN NoNode
  ELSE LET above == IF bubbles
                    THEN selectorMatchOutermost(parent[curNode], contextNode, results, bubbles)
                    ELSE NoNode
       IN IF above # NoNode THEN above
          ELSE IF curNode \in results THEN curNode ELSE NoNode

\* variant of the loop without `if (! bubbles) break`
RECURSIVE selectorMatchAlwaysBubbling(_, _, _, _)
selectorMatchAlwaysBubbling(curNode, contextNode, results, bubbles) ==
  IF curNode = contextNode \/ curNode = NoNode THEN NoNode
  ELSE IF curNode \in results THEN curNode
  ELSE selectorMatchAlwaysBubbling(parent[curNode], contextNode, results, bubbles)

\* variant of the loop that tests the parent of curNode instead of curNode
RECURSIVE selectorMatchAboveCurNode(_, _, _, _)
selectorMatchAboveCurNode(curNode, contextNode, results, bubbles) ==
  IF curNode = contextNode \/ curNode = NoNode THEN NoNode
  ELSE IF parent[curNode] \in results THEN parent[curNode]
  ELSE IF ~bubbles THEN NoNode
  ELSE selectorMatchAboveCurNode(parent[curNode], contextNode, results, bubbles)

\* variant without the walk: any node of the match set justifies handling
selectorMatchAnywhere(curNode, contextNode, results, bubbles) ==
  IF results = {} THEN NoNode ELSE CHOOSE n \in results : \A m \in results : n <= m

\* the for loop over curNode: the node that justifies handling, or NoNode
\* (a null curNode cannot be met: the target lies below the listener's node)
RECURSIVE selectorMatchFrom(_, _, _, _)
selectorMatchFrom(curNode, contextNode, results, bubbles) ==
  IF curNode = contextNode \/ curNode = NoNode THEN NoNode
  ELSE IF curNode \in results THEN curNode
  ELSE IF ~bubbles THEN NoNode
  ELSE selectorMatchFrom(parent[curNode], contextNode, results, bubbles)

\* what a user callback does to the event it is given
callbackEffect(callback, d) ==
  [d EXCEPT !.stopped = d.stopped \/ callback = "cbStop",
            !.prevented = d.prevented \/ callback = "cbPrevent"]

\* variant of the listener without `evt.type = eventType`
listenerBodyKeepsType(L, renderNode, idx, d, target) ==
  LET contextNode == parent[renderNode]
      results == find(contextNode, L.selector)
      selectorMatch == IF L.selector # <<>>
                       THEN selectorMatchFrom(target, contextNode, results, L.bubbles)
                       ELSE NoNode
      called == ~(L.selector # <<>> /\ selectorMatch = NoNode)
      entry == [kind |-> "listener", at |-> renderNode, idx |-> idx, called |-> called,
                callback |-> L.callback, this |-> L.data, type |-> d.type,
                matched |-> selectorMatch]
      d2 == [d EXCEPT !.log = Append(d.log, entry)]
  IN IF called THEN callbackEffect(L.callback, d2) ELSE d2

\* variant of the listener without `if (selector)`: the walk is always made
listenerBodyAlwaysWalks(L, renderNode, idx, d, target) ==
  LET contextNode == parent[renderNode]
      d1 == [d EXCEPT !.type = L.eventType]
      results == find(contextNode, L.selector)
      selectorMatch == selectorMatchFrom(target, contextNode, results, L.bubbles)
      called == selectorMatch # NoNode
      entry == [kind |-> "listener", at |-> renderNode, idx |-> idx, called |-> called,
                callback |-> L.callback, this |-> L.data, type |-> d1.type,
                matched |-> selectorMatch]
      d2 == [d1 EXCEPT !.log = Append(d1.log, entry)]
  IN IF called THEN callbackEffect(L.callback, d2) ELSE d2

\* d: the event object and the log of the dispatch so far
listenerBody(L, renderNode, idx, d, target) ==
  LET contextNode == parent[renderNode]
      d1 == [d EXCEPT !.type = L.eventType]
      results == find(contextNode, L.selector)
      selectorMatch == IF L.selector # <<>>
                       THEN selectorMatchFrom(target, contextNode, results, L.bubbles)
                       ELSE NoNode
      called == ~(L.selector # <<>> /\ selectorMatch = NoNode)
      entry == [kind |-> "listener", at |-> renderNode, idx |-> idx, called |-> called,
                callback |-> L.callback, this |-> L.data, type |-> d1.type,
                matched |-> selectorMatch]
      d2 == [d1 EXCEPT !.log = Append(d1.log, entry)]
  IN IF called THEN callbackEffect(L.callback, d2) ELSE d2

\* a listener bound by another library: it sees the event and leaves it alone
foreignBody(L, node, idx, d) ==
  [d EXCEPT !.log = Append(d.log, [kind |-> "foreign", at |-> node, idx |-> idx, type |-> d.type])]

\* the listeners of node registered for type ty, in registration order, from index i on
RECURSIVE runAt(_, _, _, _, _)
runAt(node, i, ty, d, target) ==
  IF i > Len(listeners[node]) THEN d
  ELSE LET L == listeners[node][i]
       IN IF L.type # ty THEN runAt(node, i + 1, ty, d, target)
          ELSE IF L.ns = "liveui" THEN runAt(node, i + 1, ty, listenerBody(L, node, i, d, target), target)
          ELSE runAt(node, i + 1, ty, foreignBody(L, node, i, d), target)

\* variant of the document handler without the test of returnValue
documentDatasetCompleteIgnoringCancel(d, target) ==
  IF nodeName[target] = "FORM"
  THEN [d EXCEPT !.log = Append(d.log, [kind |-> "submit", at |-> target, via |-> "script"])]
  ELSE d

\* the handler of document.attachEvent('ondatasetcomplete', ...)
documentDatasetComplete(d, target) ==
  IF nodeName[target] = "FORM" /\ ~d.prevented
  THEN [d EXCEPT !.log = Append(d.log, [kind |-> "submit", at |-> target, via |-> "script"])]
  ELSE d

\* the handlers attached to the document itself, run when the event gets there
documentHandlers(cur, ty, d, target) ==
  IF cur = Doc /\ ieHack /\ ty = <<"datasetcomplete">>
  THEN documentDatasetComplete(d, target) ELSE d

\* variant that delivers from the outermost ancestor down to the target
RECURSIVE propagateTopDown(_, _, _, _, _)
propagateTopDown(cur, ty, d, target, bub) ==
  IF cur = NoNode THEN d
  ELSE LET above == propagateTopDown(IF bub THEN parent[cur] ELSE NoNode, ty, d, target, bub)
       IN IF above.stopped THEN above
          ELSE documentHandlers(cur, ty, runAt(cur, 1, ty, [above EXCEPT !.type = ty], target), target)

\* delivery of one event along the parent chain; the type field is the
\* delivered type again at every node
RECURSIVE propagate(_, _, _, _, _)
propagate(cur, ty, d, target, bub) ==
  IF cur = NoNode \/ d.stopped THEN d
  ELSE propagate(IF bub THEN parent[cur] ELSE NoNode, ty,
                 documentHandlers(cur, ty, runAt(cur, 1, ty, [d EXCEPT !.type = ty], target), target),
                 target, bub)

newEvent(ty, logSoFar) == [type |-> ty, stopped |-> FALSE, prevented |-> FALSE, log |-> logSoFar]

\* target.fireEvent('on' + ty, newEvent): returns the log after the dispatch
fireEvent(target, ty, d) ==
  [d EXCEPT !.log =
     propagate(target, ty,
               newEvent(ty, Append(d.log, [kind |-> "fireEvent", at |-> target, type |-> ty])),
               target, TRUE).log]

\* changeSubmitHandlerIE, run for the event d of type ty on target
changeSubmitHandlerIE(d, ty, propertyName, target) ==
  IF (ty = <<"propertychange">> /\ propertyName = "checked") \/ ty = <<"change">>
  THEN fireEvent(target, <<"cellchange">>, d)
  ELSE IF ty = <<"submit">>
  THEN fireEvent(target, <<"datasetcomplete">>, [d EXCEPT !.prevented = TRUE])
  ELSE d

RECURSIVE runIEHandlers(_, _, _, _, _)
runIEHandlers(k, d, ty, propertyName, target) ==
  IF k = 0 THEN d
  ELSE runIEHandlers(k - 1, changeSubmitHandlerIE(d, ty, propertyName, target), ty, propertyName, target)

\* the types old IE delivers to the target only
IETypes == {<<"change">>, <<"submit">>, <<"propertychange">>}

hostBubbles(ty) == ty \notin {<<"focus">>, <<"blur">>}

\* one event raised by the browser on target, with its default action
defaultAction(d, target, ty) ==
  IF ty = <<"submit">> /\ nodeName[target] = "FORM" /\ ~d.prevented
  THEN Append(d.log, [kind |-> "submit", at |-> target, via |-> "native"])
  ELSE d.log

dispatch(target, ty, propertyName) ==
  defaultAction(
    IF ieHack /\ ty \in IETypes
    THEN runIEHandlers(ieWired[target][ty], runAt(target, 1, ty, newEvent(ty, <<>>), target), ty, propertyName, target)
    ELSE propagate(target, ty, newEvent(ty, <<>>), target, hostBubbles(ty)),
    target, ty)

(***************************************************************************)
(* Inputs                                                                  *)
(***************************************************************************)
\* event maps passed to _attachEvents, as sequences of [spec, callback] entries;
\* the callbacks differ in what they do to the event (see callbackEffect)
StdMaps == {
  << [spec |-> <<"click", " ", ".save">>, callback |-> "cb"] >>,
  << [spec |-> <<"focus", " ", ".save", ",", " ", "focusin">>, callback |-> "cbStop"] >>,
  << [spec |-> <<"click", " ", "ul", " ", ".save", ",", " ", "focus">>, callback |-> "cbPrevent"] >> }

IEMaps == {
  << [spec |-> <<"submit", ",", " ", "change", " ", "input">>, callback |-> "cb"] >>,
  << [spec |-> <<"submit">>, callback |-> "cbStop"] >>,
  << [spec |-> <<"submit">>, callback |-> "cbPrevent"] >>,
  << [spec |-> <<"focus", ",", " ", "focusin", ",", " ", "blur", " ", "input">>, callback |-> "cb"] >> }

EventMaps == IF ieHack THEN IEMaps ELSE StdMaps

\* the sibling ranges handed to _attachEvents and _prepareForEvents (the
\* nested range <<3, 3>> matters to propagation between listeners, the
\* range <<5, 7>> to the wiring of forms and checkboxes)
Ranges == IF ieHack THEN {<<2, 5>>, <<5, 7>>} ELSE {<<2, 5>>, <<5, 7>>, <<3, 3>>}
PrepareRanges == IF ieHack THEN {<<2, 5>>, <<5, 7>>} ELSE {<<2, 5>>}

\* the nodes the browser raises events on
FireTargets == Elems \ {1}

\* the nodes handed to _resetEvents
ResetNodes == {2, 3, 5}

\* the nodes n = start, start.nextSibling, ... visited by `n && n !== after`
RECURSIVE rangeFrom(_, _)
rangeFrom(n, after) ==
  IF n = NoNode \/ n = after THEN <<>> ELSE <<n>> \o rangeFrom(nextSibling(n), after)

\* variant of the loop that stops at `end` instead of after it
rangeNodesBeforeEnd(start, end) == rangeFrom(start, end)

rangeNodes(start, end) == rangeFrom(start, nextSibling(end))

SeqToSet(q) == {q[i] : i \in 1..Len(q)}

\* an inclusive sibling range: end is start or a later sibling of start
IsRange(start, end) ==
  /\ start \in Elems /\ end \in Elems
  /\ parent[start] = parent[end]
  /\ start <= end

\* events raised by the browser: type, origin
StdFireTypes == {<<"click">>, <<"focusin">>, <<"change">>, <<"submit">>}
IEFireTypes == {<<"focusin">>, <<"focusout">>, <<"change">>, <<"submit">>, <<"propertychange">>}
FireTypes == IF ieHack THEN IEFireTypes ELSE StdFireTypes

CanFire(ty, target) ==
  /\ target \in FireTargets
  /\ ty = <<"submit">> => nodeName[target] = "FORM"
  /\ ty = <<"change">> => nodeName[target] = "INPUT"
  /\ ty = <<"propertychange">> => (ieHack /\ nodeName[target] = "INPUT")

(***************************************************************************)
(* State                                                                   *)
(***************************************************************************)
SrcTypes == {<<"propertychange">>, <<"change">>, <<"submit">>}

NoEvt == [type |-> <<>>, target |-> NoNode, propertyName |-> ""]

InitCommon ==
  /\ parent = Tree
  /\ listeners = [n \in Nodes |-> <<>>]
  /\ ieWired = [n \in Nodes |-> [t \in SrcTypes |-> 0]]
  /\ evt = NoEvt
  /\ log = <<>>
  /\ hist = <<>>
  /\ pout = <<>>

\* a browser without the IE <= 8 quirks: wireIEChangeSubmitHack stays null
Init == InitCommon /\ ieHack = FALSE /\ pin = [spec |-> <<>>, parsed |-> TRUE]

\* IE <= 8: wireIEChangeSubmitHack is set
InitIE == InitCommon /\ ieHack = TRUE /\ pin = [spec |-> <<>>, parsed |-> TRUE]

(***************************************************************************)
(* Meteor.ui._attachEvents                                                 *)
(***************************************************************************)
\* $.event.add(renderNode, rewrittenEventType + ".liveui", fn): the registration
liveListener(b, event_data) ==
  [type |-> b.rewrittenEventType, ns |-> "liveui", eventType |-> b.eventType,
   bubbles |-> b.bubbles, selector |-> b.selector, callback |-> b.callback,
   data |-> event_data]

\* the registrations one _attachEvents call adds to a node of the range, in order
RECURSIVE attachAll(_, _)
attachAll(bindings, event_data) ==
  IF Len(bindings) = 0 THEN <<>>
  ELSE <<liveListener(Head(bindings), event_data)>> \o attachAll(Tail(bindings), event_data)

\* variant that skips a registration the node already carries for the same clause
attachEventsDeduplicating(start, end, events, event_data) ==
  LET added == attachAll(parseEvents(events, ieHack), event_data)
      range == SeqToSet(rangeNodes(start, end))
      isNew(n, L) == \A i \in 1..Len(listeners[n]) : [listeners[n][i] EXCEPT !.data = L.data] # L
  IN [n \in Nodes |-> IF n \in range
                      THEN listeners[n] \o SelectSeq(added, LAMBDA L : isNew(n, L))
                      ELSE listeners[n]]

attachEvents(start, end, events, event_data) ==
  LET added == attachAll(parseEvents(events, ieHack), event_data)
      range == SeqToSet(rangeNodes(start, end))
  IN [n \in Nodes |-> IF n \in range THEN listeners[n] \o added ELSE listeners[n]]

\* one call of _attachEvents on the range r = <<start, end>>
AttachEventsOn(r, events) ==
   \* every call passes the data object of its own template instance
   LET start == r[1]  end == r[2]  event_data == Len(hist) + 1 IN
    /\ evt = NoEvt /\ Len(hist) < MaxOps
    /\ IsRange(start, end)
    /\ listeners' = attachEvents(start, end, events, event_data)
    /\ hist' = Append(hist, [op |-> "attach", start |-> start, end |-> end, events |-> events, data |-> event_data])
    /\ UNCHANGED <<parent, ieHack, ieWired, evt, log, pin, pout>>

AttachEvents == \E r \in Ranges, events \in EventMaps : AttachEventsOn(r, events)

(***************************************************************************)
(* Meteor.ui._resetEvents                                                  *)
(***************************************************************************)
\* variant that unbinds one event type only (that of the first registration)
resetEventsOneType(node) ==
  LET live == SelectSeq(listeners[node], LAMBDA L : L.ns = "liveui")
  IN IF Len(live) = 0 THEN listeners
     ELSE [listeners EXCEPT ![node] =
             SelectSeq(listeners[node], LAMBDA L : ~(L.ns = "liveui" /\ L.type = live[1].type))]

\* variant that unbinds without the namespace
resetEventsAllNamespaces(node) == [listeners EXCEPT ![node] = <<>>]

\* $(node).unbind(".liveui")
resetEvents(node) ==
  [listeners EXCEPT ![node] = SelectSeq(listeners[node], LAMBDA L : L.ns # "liveui")]

ResetEvents ==
  \E node \in ResetNodes :
    /\ evt = NoEvt /\ Len(hist) < MaxOps
    /\ listeners' = resetEvents(node)
    /\ hist' = Append(hist, [op |-> "reset", start |-> node, end |-> node, events |-> <<>>, data |-> 0])
    /\ UNCHANGED <<parent, ieHack, ieWired, evt, log, pin, pout>>

(***************************************************************************)
(* Meteor.ui._prepareForEvents                                             *)
(***************************************************************************)
\* the source event wireNode hooks on n, or <<>> when it hooks none
wiredType(n) ==
  IF nodeName[n] = "INPUT"
  THEN IF inputType[n] = "checkbox" \/ inputType[n] = "radio" THEN <<"propertychange">> ELSE <<"change">>
  ELSE IF nodeName[n] = "FORM" THEN <<"submit">>
  ELSE <<>>

\* variant of wireNode without the detachEvent calls
wireNodeWithoutDetach(w, n) ==
  IF wiredType(n) = <<>> THEN w
  ELSE [w EXCEPT ![n][wiredType(n)] = @ + 1]

\* detachEvent then attachEvent of the one changeSubmitHandlerIE
wireNode(w, n) ==
  IF wiredType(n) = <<>> THEN w
  ELSE LET t == wiredType(n)
           detached == IF w[n][t] > 0 THEN w[n][t] - 1 ELSE 0
       IN [w EXCEPT ![n][t] = detached + 1]

\* variant of the loop body without the getElementsByTagName calls
wiredByRangeNodeOnly(n) == {n}

\* the nodes one pass of the loop over the range hands to wireNode
wiredBy(n) ==
  {n} \cup (IF hasChild(n)
            THEN {m \in Descendants(n) : nodeName[m] = "INPUT"} \cup {m \in Descendants(n) : nodeName[m] = "FORM"}
            ELSE {})

RECURSIVE wireSet(_, _)
wireSet(w, S) ==
  IF S = {} THEN w ELSE LET n == CHOOSE x \in S : TRUE IN wireSet(wireNode(w, n), S \ {n})

wireIEChangeSubmitHack(start, end) ==
  wireSet(ieWired, UNION {wiredBy(n) : n \in SeqToSet(rangeNodes(start, end))})

\* one call of _prepareForEvents on the range r = <<start, end>>
PrepareForEventsOn(r) ==
   LET start == r[1]  end == r[2] IN
    /\ evt = NoEvt /\ Len(hist) < MaxOps
    /\ IsRange(start, end)
    /\ ieWired' = IF ieHack THEN wireIEChangeSubmitHack(start, end) ELSE ieWired
    /\ hist' = Append(hist, [op |-> "prepare", start |-> start, end |-> end, events |-> <<>>, data |-> 0])
    /\ UNCHANGED <<parent, ieHack, listeners, evt, log, pin, pout>>

PrepareForEvents == \E r \in PrepareRanges : PrepareForEventsOn(r)

(***************************************************************************)
(* Another library binds a listener of its own on a node                   *)
(***************************************************************************)
ForeignTypes == {<<"click">>}
ForeignNodes == {2}

foreignListener(ty) ==
  [type |-> ty, ns |-> "other", eventType |-> ty, bubbles |-> TRUE, selector |-> <<>>,
   callback |-> "foreign", data |-> "none"]

ForeignBind ==
  \E node \in ForeignNodes, ty \in ForeignTypes :
    /\ evt = NoEvt /\ Len(hist) < MaxOps
    /\ listeners' = [listeners EXCEPT ![node] = Append(@, foreignListener(ty))]
    /\ hist' = Append(hist, [op |-> "foreign", start |-> node, end |-> node, events |-> <<>>, data |-> 0])
    /\ UNCHANGED <<parent, ieHack, ieWired, evt, log, pin, pout>>

(***************************************************************************)
(* The browser raises an event; the dispatch runs to completion            *)
(***************************************************************************)
\* variant whose listeners are one-shot: those of the target are unbound by the dispatch
FireOneShot ==
  \E target \in FireTargets, ty \in FireTypes, propertyName \in {"checked", "value"} :
    /\ evt = NoEvt
    /\ CanFire(ty, target)
    /\ ty # <<"propertychange">> => propertyName = "value"
    /\ evt' = [type |-> ty, target |-> target, propertyName |-> propertyName]
    /\ log' = dispatch(target, ty, propertyName)
    /\ listeners' = [listeners EXCEPT ![target] = SelectSeq(@, LAMBDA L : L.ns # "liveui")]
    /\ UNCHANGED <<parent, ieHack, ieWired, hist, pin, pout>>

Fire ==
  \E target \in FireTargets, ty \in FireTypes, propertyName \in {"checked", "value"} :
    /\ evt = NoEvt
    /\ CanFire(ty, target)
    /\ ty # <<"propertychange">> => propertyName = "value"
    /\ evt' = [type |-> ty, target |-> target, propertyName |-> propertyName]
    /\ log' = dispatch(target, ty, propertyName)
    /\ UNCHANGED <<parent, ieHack, listeners, ieWired, hist, pin, pout>>

\* control returns to the event loop
Finish ==
  /\ evt # NoEvt
  /\ evt' = NoEvt
  /\ log' = <<>>
  /\ UNCHANGED <<parent, ieHack, listeners, ieWired, hist, pin, pout>>

(***************************************************************************)
(* The parser run on its own, on every spec string of a bounded length     *)
(***************************************************************************)
SpecUnits == {"click", ".save", " ", ","}

RECURSIVE StringsUpTo(_)
StringsUpTo(k) ==
  IF k = 0 THEN {<<>>}
  ELSE LET shorter == StringsUpTo(k - 1)
       IN shorter \cup {Append(s, u) : s \in shorter, u \in SpecUnits}

InitParse ==
  /\ InitCommon
  /\ ieHack = FALSE
  /\ pin \in [spec : StringsUpTo(MaxSpecLen), parsed : {FALSE}]

ParseSpec ==
  /\ ~pin.parsed
  /\ pin' = [pin EXCEPT !.parsed = TRUE]
  /\ pout' = parseEvents(<<[spec |-> pin.spec, callback |-> "cb"]>>, ieHack)
  /\ UNCHANGED <<parent, ieHack, listeners, ieWired, evt, log, hist>>

NextParse == ParseSpec

SpecParse == InitParse /\ [][NextParse]_vars

(***************************************************************************)
(* Delegation scopes: attachEvents alone, on ranges that nest, with        *)
(* selectors that pick single nodes                                        *)
(***************************************************************************)
\* the DIV at the top, the UL..FORM range below it, the LI inside the UL
ScopeRanges == {<<1, 1>>, <<2, 5>>, <<3, 3>>}

CancelMap == << [spec |-> <<"click", " ", ".save", ",", " ", ".cancel">>, callback |-> "cb"] >>

ScopeMaps == {
  CancelMap,
  << [spec |-> <<"click", " ", "li">>, callback |-> "cbPrevent"] >>,
  << [spec |-> <<"click", " ", "ul">>, callback |-> "cb"] >> }

AttachScoped == \E r \in ScopeRanges, events \in ScopeMaps : AttachEventsOn(r, events)

NextScopes == AttachScoped \/ Fire \/ Finish

SpecScopes == Init /\ [][NextScopes]_vars

(***************************************************************************)
(* The parser run on one clause per event type, in both environments       *)
(***************************************************************************)
RewriteTypes == {"focus", "blur", "change", "submit", "click", "keydown",
                 "focusin", "focusout", "cellchange", "datasetcomplete"}

RewriteSelectors == {<<>>, <<" ", ".save">>, <<" ", "ul", " ", ".save">>}

InitRewrite ==
  /\ InitCommon
  /\ ieHack \in BOOLEAN
  /\ pin \in [spec : {<<t>> \o sel : t \in RewriteTypes, sel \in RewriteSelectors}, parsed : {FALSE}]

SpecRewrite == InitRewrite /\ [][NextParse]_vars

(***************************************************************************)
(* The rendering engine moves a node between calls of attachEvents         *)
(***************************************************************************)
\* the checkbox: taken out of the document, put into the LI or into the FORM
MovableNodes == {6}
NewParents == {NoNode, 3, 5}

DomMove ==
  \E n \in MovableNodes, p \in NewParents :
    /\ evt = NoEvt /\ Len(hist) < MaxOps
    /\ p # parent[n]
    /\ parent' = [parent EXCEPT ![n] = p]
    /\ hist' = Append(hist, [op |-> "dom", start |-> n, end |-> p, events |-> <<>>, data |-> 0])
    /\ UNCHANGED <<ieHack, listeners, ieWired, evt, log, pin, pout>>

NextDom == AttachEvents \/ DomMove \/ Fire \/ Finish

SpecDom == Init /\ [][NextDom]_vars

(***************************************************************************)
(* The compatibility layer in either environment: prepareForEvents and     *)
(* attachEvents on ranges that hold the inputs and the form as range nodes *)
(* or as descendants                                                       *)
(***************************************************************************)
InitWire == InitCommon /\ ieHack \in BOOLEAN /\ pin = [spec |-> <<>>, parsed |-> TRUE]

WireRanges == {<<1, 1>>, <<3, 3>>, <<5, 7>>}
WirePrepareRanges == {<<1, 1>>, <<5, 7>>}

WireMaps == {
  << [spec |-> <<"submit", ",", " ", "change", " ", "input">>, callback |-> "cb"] >>,
  << [spec |-> <<"change">>, callback |-> "cbStop"] >> }

AttachWired == \E r \in WireRanges, events \in WireMaps : AttachEventsOn(r, events)

PrepareWired == \E r \in WirePrepareRanges : PrepareForEventsOn(r)

NextWire == AttachWired \/ PrepareWired \/ Fire \/ Finish

SpecWire == InitWire /\ [][NextWire]_vars

Next == AttachEvents \/ ResetEvents \/ PrepareForEvents \/ ForeignBind \/ Fire \/ Finish

Spec == Init /\ [][Next]_vars

SpecIE == InitIE /\ [][Next]_vars

(***************************************************************************)
(* Properties                                                              *)
(***************************************************************************)
Fired == evt # NoEvt

\* positions of the log where a listener installed by attach ran
ListenerRuns == {i \in 1..Len(log) : log[i].kind = "listener"}

\* the registration whose run is logged at position i
RanListener(i) == listeners[log[i].at][log[i].idx]

Subtree(r) == {r} \cup Descendants(r)

\* the nodes from the origin (inclusive) up to but excluding the context c
PathBelow(origin, c) == ({origin} \cup Ancestors(origin)) \cap Descendants(c)

\* C1: a listener for a bubbling type with a selector, reached by an event, calls
\* back exactly when some node on the path from the origin up to but excluding
\* the context is in the match set, and the recorded match is the innermost one.
C1_BubblingSelectorMatch ==
  \A i \in ListenerRuns :
    LET e == log[i]
        L == RanListener(i)
        c == parent[e.at]
        onPath == PathBelow(evt.target, c) \cap find(c, L.selector)
    IN (L.bubbles /\ L.selector # <<>>) =>
         /\ e.called <=> onPath # {}
         /\ e.called => /\ e.matched \in onPath
                        /\ \A m \in onPath : m = e.matched \/ m \in Ancestors(e.matched)

\* a click whose origin lies below two nested matching nodes: the inner one is recorded
C1_Witness ==
  \E i \in ListenerRuns :
    /\ RanListener(i).bubbles /\ RanListener(i).selector # <<>>
    /\ log[i].called
    /\ log[i].matched # evt.target
    /\ Cardinality(PathBelow(evt.target, parent[log[i].at])
                   \cap find(parent[log[i].at], RanListener(i).selector)) >= 2

\* C2: a listener for a non-bubbling type with a selector calls back only when
\* the origin itself is in the match set.
C2_NonBubblingExactOrigin ==
  \A i \in ListenerRuns :
    LET e == log[i]
        L == RanListener(i)
    IN (~L.bubbles /\ L.selector # <<>> /\ e.called) =>
         /\ evt.target \in find(parent[e.at], L.selector)
         /\ e.matched = evt.target

\* the origin does not match but an ancestor of it below the context does: no call
C2_Witness ==
  \E i \in ListenerRuns :
    /\ ~RanListener(i).bubbles /\ RanListener(i).selector # <<>>
    /\ ~log[i].called
    /\ evt.target \notin find(parent[log[i].at], RanListener(i).selector)
    /\ Ancestors(evt.target) \cap find(parent[log[i].at], RanListener(i).selector) # {}

\* the registrations attach made on node r
LiveAt(r) == {i \in 1..Len(listeners[r]) : listeners[r][i].ns = "liveui"}

\* the log positions where registration i of node r called its callback
CallsOf(r, i) == {k \in ListenerRuns : log[k].at = r /\ log[k].idx = i /\ log[k].called}

\* a callback run at a node strictly below r stopped the propagation
StoppedBelow(r) ==
  \E k \in ListenerRuns :
    log[k].called /\ log[k].callback = "cbStop" /\ log[k].at \in Descendants(r)

\* C3 as stated: without a selector, every event of the declared type whose
\* origin is a node of the range or a descendant of one calls back, and an
\* event of another type never does.
C3_NoSelectorAlwaysFires ==
  Fired =>
    \A r \in Elems : \A i \in LiveAt(r) :
      LET L == listeners[r][i]
      IN L.selector = <<>> =>
           /\ (L.type = evt.type /\ evt.target \in Subtree(r)) => CallsOf(r, i) # {}
           /\ L.type # evt.type => CallsOf(r, i) = {}

\* C3 amended: without a selector, every event of the rewritten type whose
\* origin is a node of the range or a descendant of one calls back exactly
\* once, unless a callback run at a node below the bound node stopped its
\* propagation; every run of such a listener calls back; an event of another
\* type never does.
C3_NoSelectorFiresWhenReached ==
  Fired =>
    \A r \in Elems : \A i \in LiveAt(r) :
      LET L == listeners[r][i]
      IN L.selector = <<>> =>
           /\ (L.type = evt.type /\ evt.target \in Subtree(r) /\ ~StoppedBelow(r))
                => Cardinality(CallsOf(r, i)) = 1
           /\ \A k \in ListenerRuns : (log[k].at = r /\ log[k].idx = i) => log[k].called
           /\ L.type # evt.type => CallsOf(r, i) = {}

\* a binding of a non-bubbling type without selector called for an origin below its node,
\* while another no-selector binding for a click stays silent
C3_Witness ==
  /\ Fired
  /\ \E r \in Elems : \E i \in LiveAt(r) :
       /\ listeners[r][i].selector = <<>> /\ ~listeners[r][i].bubbles
       /\ evt.target \in Descendants(r)
       /\ CallsOf(r, i) # {}

\* node n is one of start, ..., end in sibling order
InSiblingRange(n, start, end) == parent[n] = parent[start] /\ start <= n /\ n <= end

LastOp == hist[Len(hist)]

\* the step is a call of the named API operation
IsCall(name) == Len(hist') = Len(hist) + 1 /\ hist'[Len(hist')].op = name

\* the registrations the step appended to node n
AddedTo(n) == SubSeq(listeners'[n], Len(listeners[n]) + 1, Len(listeners'[n]))

AttachCovers(i, n) == hist[i].op = "attach" /\ InSiblingRange(n, hist[i].start, hist[i].end)

\* resetEvents(n) was called and no attachEvents has covered n since
ResetSince(n) ==
  \E i \in 1..Len(hist) :
    /\ hist[i].op = "reset" /\ hist[i].start = n
    /\ \A j \in (i + 1)..Len(hist) : ~AttachCovers(j, n)

\* the rewritten types attachEvents had bound on n before the reset at position i
BoundBefore(i, n) ==
  {b.rewrittenEventType :
     b \in UNION {SeqToSet(parseEvents(hist[j].events, ieHack)) :
                    j \in {j \in 1..(i - 1) : AttachCovers(j, n)}}}

\* C5: after resetEvents(node), and until attachEvents covers the node again,
\* no listener that attachEvents installed on the node runs, so none calls back.
C5_NoCallbackAfterReset ==
  \A k \in ListenerRuns : ~ResetSince(log[k].at)

\* an event of a type bound before the reset reaches the node after the reset
C5_Witness ==
  /\ Fired
  /\ \E i \in 1..Len(hist) :
       /\ hist[i].op = "reset" /\ ResetSince(hist[i].start)
       /\ evt.type \in BoundBefore(i, hist[i].start)
       /\ Cardinality(BoundBefore(i, hist[i].start)) >= 2
       /\ evt.target \in Descendants(hist[i].start)
       /\ ~StoppedBelow(hist[i].start)

\* C6: resetEvents(node) removes every '.liveui' registration of the node and
\* nothing else: the node's other registrations, every other node's
\* registrations and the compatibility hooks stay; without a '.liveui'
\* registration on the node nothing changes.
C6_ResetRemovesOnlyLiveuiOfNode ==
  [][IsCall("reset") =>
       LET n == hist'[Len(hist')].start
       IN /\ \A i \in 1..Len(listeners'[n]) : listeners'[n][i].ns # "liveui"
          /\ listeners'[n] = SelectSeq(listeners[n], LAMBDA L : L.ns = "other")
          /\ \A m \in Nodes \ {n} : listeners'[m] = listeners[m]
          /\ ieWired' = ieWired
          /\ LiveAt(n) = {} => listeners' = listeners
     ]_vars

\* the reset node had both kinds of registration and keeps the foreign one,
\* while another node keeps its '.liveui' registrations
C6_Witness ==
  /\ Len(hist) >= 1 /\ LastOp.op = "reset"
  /\ listeners[LastOp.start] # <<>>
  /\ BoundBefore(Len(hist), LastOp.start) # {}
  /\ \E m \in Elems \ {LastOp.start} : LiveAt(m) # {}

\* the history is k calls of attachEvents with one range and one events map
SameAttachOnly ==
  /\ Len(hist) >= 1
  /\ \A i \in 1..Len(hist) :
       /\ hist[i].op = "attach"
       /\ hist[i].start = hist[1].start /\ hist[i].end = hist[1].end
       /\ hist[i].events = hist[1].events

\* the registrations of node n made for binding b
RegistrationsOf(n, b) ==
  {i \in LiveAt(n) : /\ listeners[n][i].type = b.rewrittenEventType
                     /\ listeners[n][i].eventType = b.eventType
                     /\ listeners[n][i].selector = b.selector
                     /\ listeners[n][i].callback = b.callback}

\* C7: k calls of attachEvents with the same range and map leave k
\* registrations per binding and node, and one event then calls the callback
\* of a binding either not at all or exactly k times on a node.
C7_KAttachesKCalls ==
  SameAttachOnly =>
    LET k == Len(hist)
        B == parseEvents(hist[1].events, ieHack)
    IN \A n \in Nodes : InSiblingRange(n, hist[1].start, hist[1].end) =>
         \A j \in 1..Len(B) :
           LET mult == Cardinality({j2 \in 1..Len(B) : B[j2] = B[j]})
               regs == RegistrationsOf(n, B[j])
               calls == UNION {CallsOf(n, i) : i \in regs}
           IN /\ Cardinality(regs) = k * mult
              /\ Fired => Cardinality(calls) \in {0, k * mult}

\* two identical calls, then one matching event: two calls of the callback
C7_Witness ==
  /\ SameAttachOnly /\ Len(hist) = 2 /\ Fired
  /\ \E n \in Elems : \E i \in LiveAt(n) :
       Cardinality(UNION {CallsOf(n, i2) : i2 \in {i2 \in LiveAt(n) :
           [listeners[n][i2] EXCEPT !.data = 0] = [listeners[n][i] EXCEPT !.data = 0]}}) = 2

\* the whitespace-delimited tokens of a clause: its maximal runs of non-blank units
RECURSIVE TokensFrom(_, _, _)
TokensFrom(clause, i, cur) ==
  IF i > Len(clause) THEN (IF cur = <<>> THEN <<>> ELSE <<cur>>)
  ELSE IF clause[i] = " "
       THEN (IF cur = <<>> THEN <<>> ELSE <<cur>>) \o TokensFrom(clause, i + 1, <<>>)
       ELSE TokensFrom(clause, i + 1, Append(cur, clause[i]))

TokensOf(clause) == TokensFrom(clause, 1, <<>>)

\* what the clauses should yield, in clause order: nothing for a clause
\* without tokens, else the first token and the other tokens joined by blanks
RECURSIVE ExpectedBindings(_)
ExpectedBindings(clauses) ==
  IF Len(clauses) = 0 THEN <<>>
  ELSE LET toks == TokensOf(Head(clauses))
       IN (IF Len(toks) = 0 THEN <<>>
           ELSE << [eventType |-> Head(toks), selector |-> join(Tail(toks))] >>)
          \o ExpectedBindings(Tail(clauses))

\* C8: parsing yields, in clause order, exactly one binding per clause made
\* of the clause's first token and its other tokens joined by single blanks,
\* and no binding for a clause without tokens.
C8_ParseClauseByClause ==
  pin.parsed =>
    /\ Len(pout) = Len(ExpectedBindings(split(pin.spec, "commaWs")))
    /\ \A j \in 1..Len(pout) :
         [eventType |-> pout[j].eventType, selector |-> pout[j].selector]
           = ExpectedBindings(split(pin.spec, "commaWs"))[j]

\* the attachEvents call that passed the data object `this` covered node n
\* with a clause declaring type ty for callback cb and selector sel
DeclaredBy(this, n, ty, cb, sel) ==
  /\ this \in 1..Len(hist)
  /\ AttachCovers(this, n)
  /\ \E b \in SeqToSet(parseEvents(hist[this].events, ieHack)) :
       b.eventType = ty /\ b.callback = cb /\ b.selector = sel

\* C9: a callback is called with the event type its clause declares, never
\* the rewritten one, and with the data object of its attachEvents call as this.
C9_DeclaredTypeAndData ==
  \A k \in ListenerRuns :
    log[k].called =>
      /\ log[k].type = RanListener(k).eventType
      /\ DeclaredBy(log[k].this, log[k].at, log[k].type, log[k].callback, RanListener(k).selector)

\* two clauses of the second attachEvents call share the rewritten type on one
\* node and both call back, each with its own declared type
C9_Witness ==
  \E k1 \in ListenerRuns, k2 \in ListenerRuns :
    /\ log[k1].called /\ log[k2].called
    /\ log[k1].at = log[k2].at
    /\ RanListener(k1).type = RanListener(k2).type
    /\ log[k1].type # log[k2].type
    /\ log[k1].type # RanListener(k1).type
    /\ log[k1].this = 2

\* the log positions where the form was submitted
Submissions == {k \in 1..Len(log) : log[k].kind = "submit"}

\* C10: a submit event on a wired form whose synthesized event no callback
\* cancels submits the form exactly once, after the delegated listeners ran.
C10_UncancelledSubmitSubmitsOnce ==
  ( /\ Fired /\ ieHack
    /\ evt.type = <<"submit">>
    /\ ieWired[evt.target][<<"submit">>] > 0
    /\ \A k \in ListenerRuns : ~(log[k].called /\ log[k].callback = "cbPrevent") )
  => /\ Cardinality(Submissions) = 1
     /\ \A k \in ListenerRuns : \A m \in Submissions : k < m

\* the calls of prepareForEvents so far whose range holds node n or an ancestor of n
PreparesCovering(n) ==
  {i \in 1..Len(hist) :
     /\ hist[i].op = "prepare"
     /\ \E r \in {n} \cup Ancestors(n) : InSiblingRange(r, hist[i].start, hist[i].end)}

\* a callback called during the dispatch cancelled the default action
Cancelled == \E k \in ListenerRuns : log[k].called /\ log[k].callback = "cbPrevent"

\* C11: with the compatibility layer active, a submit event whose synthesized
\* event a callback cancels never submits the form, and no submit event
\* submits the form more than once, whatever the number of prepareForEvents
\* calls on ranges holding the form.
C11_CancelledNeverSubmittedAtMostOnce ==
  (Fired /\ ieHack /\ evt.type = <<"submit">>) =>
    /\ Cancelled => Submissions = {}
    /\ Cardinality(Submissions) <= 1

\* the form was prepared twice, a callback cancels the synthesized event, no submission
C11_Witness ==
  /\ Fired /\ ieHack /\ evt.type = <<"submit">>
  /\ Cardinality(PreparesCovering(evt.target)) >= 2
  /\ \E k \in ListenerRuns : log[k].called /\ log[k].callback = "cbPrevent" /\ log[k].type = <<"submit">>
  /\ \E k \in 1..Len(log) : log[k].kind = "fireEvent" /\ log[k].type = <<"datasetcomplete">>
  /\ Submissions = {}

\* the runs of registration i of node r
RunsOf(r, i) == {k \in ListenerRuns : log[k].at = r /\ log[k].idx = i}

\* the nodes whose listeners the event reached
ReachedNodes == {log[k].at : k \in ListenerRuns}

\* the calls of the callback
AllCalls == {k \in ListenerRuns : log[k].called}

\* C12: after a single attachEvents call one event runs each registration at
\* most once, reaches the listeners of at most one node of the range and so
\* calls the callback at most once per clause; with {"click .save, .cancel": cb}
\* a click on a '.save' element at or below a range node calls cb exactly
\* once, and a click without a '.save' node on its path below the context
\* does not call cb.
C12_AtMostOncePerBinding ==
  (Fired /\ Len(hist) = 1 /\ hist[1].op = "attach") =>
    LET a == hist[1]
        B == parseEvents(a.events, ieHack)
        range == {n \in Nodes : InSiblingRange(n, a.start, a.end)}
    IN /\ \A r \in Nodes : \A i \in LiveAt(r) : Cardinality(RunsOf(r, i)) <= 1
       /\ Cardinality(ReachedNodes) <= 1
       /\ ReachedNodes \subseteq range
       /\ \A j \in 1..Len(B) : Cardinality(UNION {CallsOf(r, j) : r \in range}) <= 1
       /\ (a.events = CancelMap /\ evt.type = <<"click">>) =>
            /\ (".save" \in classes[evt.target] /\ \E r \in range : evt.target \in Subtree(r))
                 => Cardinality(AllCalls) = 1
            /\ (\A n \in PathBelow(evt.target, parent[a.start]) : ".save" \notin classes[n])
                 => AllCalls = {}

\* a click on the '.save' LI inside the '.save' UL of the range: two nodes
\* on the walk match, one call
C12_Witness ==
  /\ Fired /\ Len(hist) = 1 /\ hist[1].op = "attach" /\ hist[1].events = CancelMap
  /\ evt.type = <<"click">> /\ ".save" \in classes[evt.target]
  /\ Cardinality({n \in PathBelow(evt.target, parent[hist[1].start]) : ".save" \in classes[n]}) >= 2
  /\ Cardinality(AllCalls) = 1
  /\ \A k \in AllCalls : log[k].matched = evt.target /\ log[k].at # evt.target

\* C13: when one event calls back a binding of an inner scope and a binding of
\* an outer scope (the inner root a strict descendant of the outer root), the
\* inner scope's callback is called first, wherever the matched nodes lie.
C13_InnerScopeFirst ==
  \A k1 \in AllCalls, k2 \in AllCalls :
    log[k1].at \in Descendants(log[k2].at) => k1 < k2

\* outer DIV binding matching the LI, inner UL binding matching the UL: the
\* node matched by the outer binding lies below the one matched by the inner
\* binding, and the inner callback ran first
C13_Witness ==
  \E k1 \in AllCalls, k2 \in AllCalls :
    /\ log[k1].at \in Descendants(log[k2].at)
    /\ nodeName[log[k2].at] = "DIV" /\ nodeName[log[k1].at] = "UL"
    /\ nodeName[log[k2].matched] = "LI" /\ log[k1].matched = log[k1].at
    /\ log[k2].matched \in Descendants(log[k1].matched)
    /\ k1 < k2

\* the registrations attachEvents made, node by node
LiveRegs == [n \in Nodes |-> SelectSeq(listeners[n], LAMBDA L : L.ns = "liveui")]

C15_FailedRunLeavesEventUntouched ==
  \A k \in ListenerRuns :
    ~log[k].called => log[k].type = RanListener(k).type

\* the table of rewritten types; active: the compatibility layer is active
ExpectedRewrite(t, active) ==
  CASE t = <<"focus">> -> <<"focusin">>
    [] t = <<"blur">> -> <<"focusout">>
    [] t = <<"change">> /\ active -> <<"cellchange">>
    [] t = <<"submit">> /\ active -> <<"datasetcomplete">>
    [] OTHER -> t

\* C16: the listener of a clause is registered under the rewritten type of the
\* table (focus -> focusin, blur -> focusout, change -> cellchange and
\* submit -> datasetcomplete with the compatibility layer active only, every
\* other type unchanged); bubbles is false for focus and blur only.
C16_RewriteTable ==
  pin.parsed =>
    /\ Len(pout) = 1
    /\ \A j \in 1..Len(pout) :
         LET b == pout[j] IN
         /\ b.eventType = <<Head(pin.spec)>>
         /\ b.rewrittenEventType = ExpectedRewrite(b.eventType, ieHack)
         /\ liveListener(b, 0).type = ExpectedRewrite(b.eventType, ieHack)
         /\ b.bubbles = (b.eventType \notin {<<"focus">>, <<"blur">>})
         /\ liveListener(b, 0).bubbles = b.bubbles
         /\ b.rewrittenEventType # b.eventType =>
              b.eventType \in {<<"focus">>, <<"blur">>, <<"change">>, <<"submit">>}

\* a 'change' clause parsed without the compatibility layer keeps its type
C16_Witness ==
  /\ pin.parsed /\ ~ieHack /\ Len(pout) = 1
  /\ pout[1].eventType = <<"change">> /\ pout[1].rewrittenEventType = <<"change">>
  /\ pout[1].bubbles /\ pout[1].selector # <<>>

\* the tree as it is now: the nodes below c, the walk from the origin up to
\* but excluding c, and the nodes below c that match the selector
NowBelow(c) == {n \in Nodes : c \in AncestorsIn(parent, n)}

WalkNow(origin, c) == ({origin} \cup AncestorsIn(parent, origin)) \cap NowBelow(c)

RECURSIVE MatchesNow(_, _, _, _)
MatchesNow(n, toks, k, c) ==
  /\ simpleMatch(n, toks[k])
  /\ \/ k = 1
     \/ \E a \in AncestorsIn(parent, n) \cap NowBelow(c) : MatchesNow(a, toks, k - 1, c)

MatchSetNow(c, selector) ==
  LET toks == SelectSeq(split(selector, "ws"), LAMBDA piece : piece # <<>>)
  IN {n \in NowBelow(c) : MatchesNow(n, toks, Len(toks), c)}

C18_MatchedWithinRootSubtree ==
  \A k \in ListenerRuns :
    LET e == log[k]
        c == parent[e.at]
    IN /\ evt.target \in Subtree(e.at)
       /\ (e.called /\ RanListener(k).selector # <<>>) =>
            /\ e.matched \in Subtree(e.at)
            /\ e.matched \in {evt.target} \cup Ancestors(evt.target)
            /\ e.matched # c /\ e.matched \notin Ancestors(c)
       /\ ~(e.called /\ RanListener(k).selector # <<>>) => e.matched = NoNode

\* the match set holds a node of a sibling subtree; the walk went up from the
\* origin and recorded a node of the root's subtree
C18_Witness ==
  \E k \in ListenerRuns :
    /\ log[k].called /\ RanListener(k).selector # <<>>
    /\ find(parent[log[k].at], RanListener(k).selector) \ Subtree(log[k].at) # {}
    /\ log[k].matched # evt.target
    /\ log[k].matched \in Subtree(log[k].at)

\* the source event of an INPUT or FORM node
SourceType(n) ==
  IF nodeName[n] = "FORM" THEN <<"submit">>
  ELSE IF inputType[n] \in {"checkbox", "radio"} THEN <<"propertychange">>
  ELSE <<"change">>

\* every prepared INPUT and FORM node carries the handler of its source event
PreparedNodesWired ==
  \A n \in Nodes :
    (nodeName[n] \in {"INPUT", "FORM"} /\ PreparesCovering(n) # {}) => ieWired[n][SourceType(n)] >= 1

\* the event is a change or a submit raised on a prepared node
ChangeOrSubmitOnPrepared ==
  /\ Fired /\ ieHack
  /\ nodeName[evt.target] \in {"INPUT", "FORM"}
  /\ PreparesCovering(evt.target) # {}
  /\ evt.type = SourceType(evt.target)
  /\ evt.type = <<"propertychange">> => evt.propertyName = "checked"

\* the type a clause declares for the event
DeclaredTypeOfEvent == IF evt.type = <<"submit">> THEN <<"submit">> ELSE <<"change">>

\* the registrations on the origin and its ancestors bound for the declared type
DelegatedFor(r) == {i \in LiveAt(r) : listeners[r][i].eventType = DeclaredTypeOfEvent}

\* C19 as stated: with the compatibility layer active every prepared INPUT
\* and FORM node carries the handler of its source event and a change or
\* submit on it reaches every listener bound for 'change' or 'submit' on an
\* enclosing range node; with the layer inactive nothing is wired.
C19_PreparedNodesObserved ==
  /\ ieHack => PreparedNodesWired
  /\ ~ieHack => \A n \in Nodes : \A t \in SrcTypes : ieWired[n][t] = 0
  /\ ChangeOrSubmitOnPrepared =>
       \A r \in {evt.target} \cup Ancestors(evt.target) : \A i \in DelegatedFor(r) :
         RunsOf(r, i) # {}

\* C19 amended: as above, the listener being reached unless a callback run
\* at a node below its node stopped the propagation of the synthesized event.
C19_PreparedNodesObservedUnlessStopped ==
  /\ ieHack => PreparedNodesWired
  /\ ~ieHack => \A n \in Nodes : \A t \in SrcTypes : ieWired[n][t] = 0
  /\ ChangeOrSubmitOnPrepared =>
       \A r \in {evt.target} \cup Ancestors(evt.target) : \A i \in DelegatedFor(r) :
         ~StoppedBelow(r) => Cardinality(RunsOf(r, i)) = 1

\* the form lies below the prepared range node; its submit reaches the
\* listener bound for 'submit' on that range node
C19_Witness ==
  /\ ChangeOrSubmitOnPrepared /\ evt.type = <<"submit">>
  /\ \A i \in PreparesCovering(evt.target) : hist[i].start \in Ancestors(evt.target)
  /\ \E r \in Ancestors(evt.target) : \E i \in DelegatedFor(r) : CallsOf(r, i) # {}

\* the synthesized events fired during the dispatch
Synthesized == {k \in 1..Len(log) : log[k].kind = "fireEvent"}

\* C20: however often and on whatever ranges prepareForEvents was called, a
\* node carries at most one handler per source event type, a prepared INPUT
\* or FORM node exactly one for its own source type, and one change or
\* submit on it fires exactly one synthesized event.
C20_PrepareIdempotent ==
  /\ \A n \in Nodes : \A t \in SrcTypes : ieWired[n][t] <= 1
  /\ \A n \in Nodes : PreparesCovering(n) # {} =>
       \A t \in SrcTypes :
         ieWired[n][t] = (IF nodeName[n] \in {"INPUT", "FORM"} /\ t = SourceType(n) THEN 1 ELSE 0)
  /\ ChangeOrSubmitOnPrepared =>
       /\ Cardinality(Synthesized) = 1
       /\ \A r \in Nodes : \A i \in LiveAt(r) : Cardinality(RunsOf(r, i)) <= 1

\* the checkbox was prepared through two different ranges that overlap; its
\* change fires one synthesized event, which a delegated listener receives
C20_Witness ==
  /\ ChangeOrSubmitOnPrepared
  /\ \E i \in PreparesCovering(evt.target), j \in PreparesCovering(evt.target) :
       hist[i].start # hist[j].start
  /\ Cardinality(Synthesized) = 1
  /\ ListenerRuns # {}

====
